---- MODULE Spec2Model ----
(***************************************************************************)
(* One run of the Portfolio Analyzer script (src/app.py).  The script is   *)
(* executed top to bottom; pc names the statement group that runs next and *)
(* error names the exception that ended the run, if any.                   *)
(*                                                                         *)
(* Numbers.  Every pandas / Python float is modelled as an exact rational  *)
(* [k |-> "num", n, d] in lowest terms, or as one of the IEEE specials     *)
(* NaN, +inf, -inf.  Rounding is not modelled.  The holding periods are    *)
(* whole numbers of years, so the exponent 1/Years of calculate_cagr is an *)
(* integer and the power stays rational.  A volatility is kept as the      *)
(* rational under its square root.                                         *)
(***************************************************************************)
EXTENDS Integers, Sequences, FiniteSets

\* ---------------------------------------------------------------- bounds
MaxRows == 2
MaxHist == 2

\* ------------------------------------------------------ program constants
DaysPerYear == 365
TradingDays == 252
Percent == 100

\* ------------------------------------------------------------ input sets
Symbols == {"X", "Y"}
Required == {"Symbol", "Quantity", "BuyPrice", "BuyDate"}
\* (Quantity, BuyPrice, days between BuyDate and today)
Lots == { <<10, 100, 365>>, <<10, 100, 0>>, <<10, 100, -365>>,
          <<0, 100, 365>>, <<10, 0, 365>> }
LivePrices == {150}
NoneSector == "<None>"
Sectors == {NoneSector, "Unknown", "Technology"}

\* ------------------------------------------------------------- float values
Abs(x) == IF x < 0 THEN -x ELSE x

RECURSIVE GCD(_, _)
GCD(a, b) == IF b = 0 THEN a ELSE GCD(b, a % b)

Num(n, d) ==
    LET g == GCD(Abs(n), Abs(d))
        s == IF d < 0 THEN -1 ELSE 1
    IN [k |-> "num", n |-> (s * n) \div g, d |-> (s * d) \div g]

Int2F(i) == [k |-> "num", n |-> i, d |-> 1]
NaN == [k |-> "nan", n |-> 0, d |-> 1]
Inf(s) == [k |-> "inf", n |-> s, d |-> 1]
Raise == [k |-> "raise", n |-> 0, d |-> 1]
Unset == [k |-> "unset", n |-> 0, d |-> 1]
PyNone == [k |-> "none", n |-> 0, d |-> 1]
Zero == Int2F(0)

IsNum(a) == a.k = "num"
IsNaN(a) == a.k = "nan"
Sign(i) == IF i > 0 THEN 1 ELSE IF i < 0 THEN -1 ELSE 0

\* IEEE arithmetic as numpy performs it on a column: no exception, inf and nan
FAdd(a, b) ==
    IF IsNaN(a) \/ IsNaN(b) THEN NaN
    ELSE IF a.k = "inf" /\ b.k = "inf" THEN (IF a.n = b.n THEN a ELSE NaN)
    ELSE IF a.k = "inf" THEN a
    ELSE IF b.k = "inf" THEN b
    ELSE Num(a.n * b.d + b.n * a.d, a.d * b.d)

FNeg(a) == IF IsNaN(a) THEN NaN ELSE [a EXCEPT !.n = -a.n]

FSub(a, b) == FAdd(a, FNeg(b))

FMul(a, b) ==
    IF IsNaN(a) \/ IsNaN(b) THEN NaN
    ELSE IF a.k = "inf" \/ b.k = "inf"
         THEN (IF a.n = 0 \/ b.n = 0 THEN NaN ELSE Inf(Sign(a.n) * Sign(b.n)))
    ELSE Num(a.n * b.n, a.d * b.d)

FDiv(a, b) ==
    IF IsNaN(a) \/ IsNaN(b) THEN NaN
    ELSE IF a.k = "inf" THEN (IF b.k = "inf" THEN NaN
                              ELSE Inf(a.n * (IF b.n < 0 THEN -1 ELSE 1)))
    ELSE IF b.k = "inf" THEN Zero
    ELSE IF b.n = 0 THEN (IF a.n = 0 THEN NaN ELSE Inf(Sign(a.n)))
    ELSE Num(a.n * b.d, a.d * b.n)

FGt(a, b) == IsNum(a) /\ IsNum(b) /\ a.n * b.d > b.n * a.d

\* Python float arithmetic inside calculate_cagr: a zero divisor raises
PyDiv(a, b) ==
    IF a.k = "raise" \/ b.k = "raise" THEN Raise
    ELSE IF IsNum(b) /\ b.n = 0 THEN Raise
    ELSE FDiv(a, b)

RECURSIVE IPow(_, _)
IPow(b, e) == IF e = 0 THEN 1 ELSE b * IPow(b, e - 1)

\* base ** e for an integral exponent e
PyPow(a, e) ==
    IF a.k = "raise" \/ e.k = "raise" THEN Raise
    ELSE IF e.n = 0 THEN Int2F(1)
    ELSE IF IsNaN(a) THEN NaN
    ELSE IF e.n > 0 THEN Num(IPow(a.n, e.n), IPow(a.d, e.n))
    ELSE IF a.n = 0 THEN Raise
    ELSE Num(IPow(a.d, -e.n), IPow(a.n, -e.n))

PySub(a, b) == IF a.k = "raise" \/ b.k = "raise" THEN Raise ELSE FSub(a, b)

\* ------------------------------------------------------------- functions
calculate_cagr(start_value, end_value, years) ==
    IF FGt(start_value, Zero)
    THEN PySub(PyPow(PyDiv(end_value, start_value), PyDiv(Int2F(1), years)), Int2F(1))
    ELSE Zero

\* a None returned by get_live_price becomes NaN in the LivePrice column
PriceCell(p) == IF p = PyNone THEN NaN ELSE p

\* what the gateway may answer for one symbol
get_live_price == {PyNone} \cup {Int2F(p) : p \in LivePrices}
get_sector == Sectors
Close(i) == IF i % 2 = 1 THEN 100 ELSE 200
history == { [i \in 1..n |-> Int2F(Close(i))] : n \in 0..MaxHist }

\* ------------------------------------------------------------------ state
VARIABLES pc, error, cols, df, rendered, total_invested, total_current,
          sector_data, hist, returns_data, nifty, portfolio_return, nifty_return

vars == <<pc, error, cols, df, rendered, total_invested, total_current,
          sector_data, hist, returns_data, nifty, portfolio_return, nifty_return>>

Steps == <<"upload", "live", "values", "cagr", "sector", "table", "summary",
           "chart", "risk", "risk_table", "benchmark", "info", "done">>
Idx(p) == CHOOSE i \in 1..Len(Steps) : Steps[i] = p
\* line 46 ran: a file was uploaded and read
Uploaded == "success" \in rendered
\* the statement group s of the analysis has run to its end
Done(s) == Uploaded /\ Idx(pc) > Idx(s)
Running == error = "none" /\ pc # "done"

HoldingRow(sym, lot) ==
    [Symbol |-> sym, Quantity |-> lot[1], BuyPrice |-> lot[2], Days |-> lot[3],
     LivePrice |-> Unset, CurrentValue |-> Unset, InvestedValue |-> Unset,
     PL |-> Unset, ReturnsPct |-> Unset, Years |-> Unset, CAGR |-> Unset,
     Sector |-> ""]
Rows == { HoldingRow(s, l) : s \in Symbols, l \in Lots }
Tables == UNION { [1..n -> Rows] : n \in 1..MaxRows }

SymbolsOf(t) == { t[i].Symbol : i \in DOMAIN t }
\* df[c] raises KeyError unless the uploaded table has the column c
HasColumn_Lenient(c) == c \in cols \/ c = "BuyDate"
HasColumn(c) == c \in cols

RECURSIVE SumSkipNa(_)
SumSkipNa(s) ==
    IF s = <<>> THEN Zero
    ELSE IF IsNaN(Head(s)) THEN SumSkipNa(Tail(s))
    ELSE FAdd(Head(s), SumSkipNa(Tail(s)))

\* the per-row formulas of lines 53-56 and 61
CurrentValue(r) == FMul(r.LivePrice, Int2F(r.Quantity))
InvestedValue(r) == FMul(Int2F(r.BuyPrice), Int2F(r.Quantity))
ProfitLoss_Swapped(r) == FSub(r.InvestedValue, r.CurrentValue)
ProfitLoss(r) == FSub(r.CurrentValue, r.InvestedValue)
ReturnsPct(r) == FMul(FDiv(r.PL, r.InvestedValue), Int2F(Percent))
Years(r) == FDiv(Int2F(r.Days), Int2F(DaysPerYear))

Column(t, f) == [i \in DOMAIN t |-> t[i][f]]

\* df.groupby("Sector")["CurrentValue"].sum(): rows whose key is None are dropped
GroupKeys(t) == { t[i].Sector : i \in DOMAIN t } \ {NoneSector}
GroupRows(t, s) == SelectSeq(t, LAMBDA r : r.Sector = s)
GroupBySum(t) ==
    [s \in GroupKeys(t) |-> SumSkipNa(Column(GroupRows(t, s), "CurrentValue"))]

\* hist["Close"].pct_change()
pct_change(c) ==
    [i \in DOMAIN c |-> IF i = 1 THEN NaN ELSE FDiv(FSub(c[i], c[i - 1]), c[i - 1])]

Count(s) == Cardinality({ i \in DOMAIN s : ~IsNaN(s[i]) })
Mean(s) == FDiv(SumSkipNa(s), Int2F(Count(s)))
\* sample variance (ddof = 1) of the values that are not NaN
Variance(s) ==
    IF Count(s) < 2 THEN NaN
    ELSE LET m == Mean(s)
             sq == [i \in DOMAIN s |->
                      IF IsNaN(s[i]) THEN NaN ELSE FMul(FSub(s[i], m), FSub(s[i], m))]
         IN  FDiv(SumSkipNa(sq), Int2F(Count(s) - 1))
\* std() * sqrt(252), kept as the number under the root
Volatility(s) ==
    LET v == FMul(Variance(s), Int2F(TradingDays))
    IN  IF IsNum(v) THEN [v EXCEPT !.k = "sqrt"] ELSE v
AnnualReturn(s) == FMul(Mean(s), Int2F(TradingDays))

HistEmpty(h) == h = <<>>

\* lines 93-100: one pass over df["Symbol"], in row order
RECURSIVE RiskLoop(_, _)
RiskLoop(syms, h) ==
    IF syms = <<>> THEN <<>>
    ELSE LET symbol == Head(syms)
             rest == RiskLoop(Tail(syms), h)
         IN  IF ~HistEmpty(h[symbol])
             THEN <<[Symbol |-> symbol,
                     Volatility |-> Volatility(pct_change(h[symbol])),
                     AnnualReturn |-> AnnualReturn(pct_change(h[symbol]))]>> \o rest
             ELSE rest

Init ==
    /\ pc = "upload"
    /\ error = "none"
    /\ cols = {}
    /\ df = <<>>
    /\ rendered = {}
    /\ total_invested = Unset
    /\ total_current = Unset
    /\ sector_data = <<>>
    /\ hist = <<>>
    /\ returns_data = <<>>
    /\ nifty = <<>>
    /\ portfolio_return = Unset
    /\ nifty_return = Unset

\* line 43, no file in the uploader: the script falls through to line 130
NoUpload ==
    /\ Running /\ pc = "upload"
    /\ pc' = "info"
    /\ UNCHANGED <<error, cols, df, rendered, total_invested, total_current,
                   sector_data, hist, returns_data, nifty, portfolio_return,
                   nifty_return>>

\* lines 43-46
Upload ==
    /\ Running /\ pc = "upload"
    /\ \E c \in SUBSET Required, t \in Tables :
          /\ cols' = c
          /\ df' = t
    /\ rendered' = rendered \cup {"success"}
    /\ pc' = "live"
    /\ UNCHANGED <<error, total_invested, total_current, sector_data, hist,
                   returns_data, nifty, portfolio_return, nifty_return>>

\* lines 49-50
FetchLivePrices ==
    /\ Running /\ pc = "live"
    /\ IF ~HasColumn("Symbol")
       THEN error' = "KeyError" /\ UNCHANGED <<pc, df>>
       ELSE /\ \E price \in [SymbolsOf(df) -> get_live_price] :
                 df' = [i \in DOMAIN df |->
                          [df[i] EXCEPT !.LivePrice = PriceCell(price[df[i].Symbol])]]
            /\ pc' = "values"
            /\ UNCHANGED error
    /\ UNCHANGED <<cols, rendered, total_invested, total_current, sector_data,
                   hist, returns_data, nifty, portfolio_return, nifty_return>>

\* lines 53-56
ComputeValues ==
    /\ Running /\ pc = "values"
    /\ IF ~HasColumn("Quantity") \/ ~HasColumn("BuyPrice")
       THEN error' = "KeyError" /\ UNCHANGED <<pc, df>>
       ELSE /\ df' = [i \in DOMAIN df |->
                LET r1 == [df[i] EXCEPT !.CurrentValue = CurrentValue(df[i])]
                    r2 == [r1 EXCEPT !.InvestedValue = InvestedValue(r1)]
                    r3 == [r2 EXCEPT !.PL = ProfitLoss(r2)]
                IN  [r3 EXCEPT !.ReturnsPct = ReturnsPct(r3)]]
            /\ pc' = "cagr"
            /\ UNCHANGED error
    /\ UNCHANGED <<cols, rendered, total_invested, total_current, sector_data,
                   hist, returns_data, nifty, portfolio_return, nifty_return>>

\* lines 59-62
ComputeCAGR ==
    /\ Running /\ pc = "cagr"
    /\ IF ~HasColumn("BuyDate")
       THEN error' = "KeyError" /\ UNCHANGED <<pc, df>>
       ELSE LET withYears == [i \in DOMAIN df |-> [df[i] EXCEPT !.Years = Years(df[i])]]
                cagr == [i \in DOMAIN df |->
                           calculate_cagr(Int2F(withYears[i].BuyPrice),
                                          withYears[i].LivePrice, withYears[i].Years)]
            IN  IF \E i \in DOMAIN df : cagr[i] = Raise
                THEN /\ error' = "ZeroDivisionError"
                     /\ df' = withYears
                     /\ UNCHANGED pc
                ELSE /\ df' = [i \in DOMAIN df |-> [withYears[i] EXCEPT !.CAGR = cagr[i]]]
                     /\ pc' = "sector"
                     /\ UNCHANGED error
    /\ UNCHANGED <<cols, rendered, total_invested, total_current, sector_data,
                   hist, returns_data, nifty, portfolio_return, nifty_return>>

\* line 65
FetchSectors ==
    /\ Running /\ pc = "sector"
    /\ \E sector \in [SymbolsOf(df) -> get_sector] :
          df' = [i \in DOMAIN df |-> [df[i] EXCEPT !.Sector = sector[df[i].Symbol]]]
    /\ pc' = "table"
    /\ UNCHANGED <<error, cols, rendered, total_invested, total_current, sector_data,
                   hist, returns_data, nifty, portfolio_return, nifty_return>>

\* line 68
ShowTable ==
    /\ Running /\ pc = "table"
    /\ rendered' = rendered \cup {"table"}
    /\ pc' = "summary"
    /\ UNCHANGED <<error, cols, df, total_invested, total_current, sector_data,
                   hist, returns_data, nifty, portfolio_return, nifty_return>>

\* lines 72-80
TotalInvested(t) == SumSkipNa(Column(t, "InvestedValue"))
TotalCurrent(t) == SumSkipNa(Column(t, "CurrentValue"))
TotalPL == FSub(total_current, total_invested)

Summary ==
    /\ Running /\ pc = "summary"
    /\ total_invested' = TotalInvested(df)
    /\ total_current' = TotalCurrent(df)
    /\ rendered' = rendered \cup {"summary"}
    /\ pc' = "chart"
    /\ UNCHANGED <<error, cols, df, sector_data, hist, returns_data, nifty,
                   portfolio_return, nifty_return>>

\* lines 84-87
SectorChart ==
    /\ Running /\ pc = "chart"
    /\ sector_data' = GroupBySum(df)
    /\ rendered' = rendered \cup {"sector_chart"}
    /\ pc' = "risk"
    /\ UNCHANGED <<error, cols, df, total_invested, total_current, hist,
                   returns_data, nifty, portfolio_return, nifty_return>>

\* lines 91-100
RiskAnalysis ==
    /\ Running /\ pc = "risk"
    /\ \E h \in [SymbolsOf(df) -> history] :
          /\ hist' = h
          /\ returns_data' = RiskLoop(Column(df, "Symbol"), h)
    /\ pc' = "risk_table"
    /\ UNCHANGED <<error, cols, df, rendered, total_invested, total_current,
                   sector_data, nifty, portfolio_return, nifty_return>>

\* lines 102-111
RiskTable ==
    /\ Running /\ pc = "risk_table"
    /\ rendered' = IF returns_data # <<>> THEN rendered \cup {"risk_table"} ELSE rendered
    /\ pc' = "benchmark"
    /\ UNCHANGED <<error, cols, df, total_invested, total_current, sector_data,
                   hist, returns_data, nifty, portfolio_return, nifty_return>>

\* lines 115-125
Benchmark ==
    /\ Running /\ pc = "benchmark"
    /\ \E series \in history :
          /\ nifty' = series
          /\ IF series = <<>>
             THEN /\ error' = "IndexError"
                  /\ UNCHANGED <<pc, rendered, portfolio_return, nifty_return>>
             ELSE /\ nifty_return' =
                       FMul(FDiv(FSub(series[Len(series)], series[1]), series[1]),
                            Int2F(Percent))
                  /\ portfolio_return' =
                       FMul(FDiv(FSub(total_current, total_invested), total_invested),
                            Int2F(Percent))
                  /\ rendered' = rendered \cup {"benchmark"}
                  /\ pc' = "info"
                  /\ UNCHANGED error
    /\ UNCHANGED <<cols, df, total_invested, total_current, sector_data, hist,
                   returns_data>>

\* line 130
Info ==
    /\ Running /\ pc = "info"
    /\ rendered' = rendered \cup {"info"}
    /\ pc' = "done"
    /\ UNCHANGED <<error, cols, df, total_invested, total_current, sector_data,
                   hist, returns_data, nifty, portfolio_return, nifty_return>>

Next == NoUpload \/ Upload \/ FetchLivePrices \/ ComputeValues \/ ComputeCAGR
        \/ FetchSectors \/ ShowTable \/ Summary \/ SectorChart \/ RiskAnalysis
        \/ RiskTable \/ Benchmark \/ Info

Spec == Init /\ [][Next]_vars

\* ------------------------------------------------------------------ claims
Available(r) == IsNum(r.LivePrice)
AnalysisOutputs == {"table", "summary", "sector_chart", "risk_table", "benchmark"}

RECURSIVE SumValues(_)
SumValues(f) ==
    IF DOMAIN f = {} THEN Zero
    ELSE LET x == CHOOSE x \in DOMAIN f : TRUE
         IN  FAdd(f[x], SumValues([y \in DOMAIN f \ {x} |-> f[y]]))

\* C1: the CAGR step yields exactly 0 for every row with yearsHeld <= 0 or
\* buyPrice <= 0, and never raises on such a row.
C1_CagrZeroWhenUndefined ==
    /\ error # "ZeroDivisionError"
    /\ Done("cagr") =>
         \A i \in DOMAIN df :
            (~FGt(df[i].Years, Zero) \/ df[i].BuyPrice <= 0) => df[i].CAGR = Zero

\* C2: a row whose live price is unavailable stays in the enriched table and
\* its currentValue, profitLoss, returnPct and cagr are all unavailable (NaN),
\* never a number.
C2_UnavailablePropagates ==
    \A i \in DOMAIN df :
       (Done("live") /\ ~Available(df[i])) =>
          /\ error # "ZeroDivisionError"
          /\ Done("cagr") =>
                /\ IsNaN(df[i].CurrentValue)
                /\ IsNaN(df[i].PL)
                /\ IsNaN(df[i].ReturnsPct)
                /\ IsNaN(df[i].CAGR)

\* C3: after the risk loop, no symbol with fewer than 2 historical closes
\* has a record in the risk table.
C3_SparseSymbolsSkipped ==
    Done("risk") =>
       \A j \in DOMAIN returns_data : Len(hist[returns_data[j].Symbol]) >= 2

\* C4: an empty benchmark series does not end the run in an unhandled error.
C4_EmptyBenchmarkNotFatal ==
    (pc = "benchmark" /\ nifty = <<>>) => error = "none"

\* C5: returnPct is profitLoss / investedValue * 100 when investedValue > 0 and
\* is the not-a-number marker (never a number, never infinite) when
\* investedValue = 0.
C5_ReturnPctGuarded ==
    Done("values") =>
       \A i \in DOMAIN df :
          /\ FGt(df[i].InvestedValue, Zero) =>
                df[i].ReturnsPct =
                   FMul(FDiv(df[i].PL, df[i].InvestedValue), Int2F(Percent))
          /\ df[i].InvestedValue = Zero => IsNaN(df[i].ReturnsPct)

\* C6: the sector allocation values add up to totalCurrent, whatever sector
\* (a name, "Unknown" or None) the gateway gave each symbol.
C6_SectorSumIsTotalCurrent ==
    Done("chart") => SumValues(sector_data) = total_current

\* C7: for every row with an available live price, currentValue is
\* livePrice * quantity, investedValue is buyPrice * quantity and profitLoss
\* is exactly currentValue - investedValue.
C7_ValuationExact ==
    Done("values") =>
       \A i \in DOMAIN df :
          Available(df[i]) =>
             /\ df[i].CurrentValue = Int2F(df[i].LivePrice.n * df[i].Quantity)
             /\ df[i].InvestedValue = Int2F(df[i].BuyPrice * df[i].Quantity)
             /\ IsNum(df[i].PL) /\ df[i].PL.d = 1
             /\ df[i].PL.n = df[i].CurrentValue.n - df[i].InvestedValue.n

\* quantity 10, buyPrice 100, livePrice 150 gives 1000, 1500 and 500
C7_Witness ==
    /\ Done("values")
    /\ \E i \in DOMAIN df :
          /\ df[i].Quantity = 10 /\ df[i].BuyPrice = 100
          /\ df[i].LivePrice = Int2F(150)
          /\ df[i].InvestedValue = Int2F(1000)
          /\ df[i].CurrentValue = Int2F(1500)
          /\ df[i].PL = Int2F(500)

\* C8: when the uploaded table lacks a required column, the run goes no
\* further than the first derived-column statement that reads the missing
\* column, ends there with a KeyError if it ends, and renders none of the
\* analysis outputs.
C8_MissingColumnAborts ==
    (Uploaded /\ ~(Required \subseteq cols)) =>
       /\ rendered \cap AnalysisOutputs = {}
       /\ "info" \notin rendered
       /\ pc \in {"live", "values", "cagr"}
       /\ pc = "values" => "Symbol" \in cols
       /\ pc = "cagr" => {"Symbol", "Quantity", "BuyPrice"} \subseteq cols
       /\ error \in {"none", "KeyError"}

\* the latest abort: only BuyDate is missing, the prices were fetched and the
\* value columns computed before line 61 raised
C8_Witness ==
    /\ Uploaded
    /\ cols = Required \ {"BuyDate"}
    /\ pc = "cagr" /\ error = "KeyError"
    /\ rendered \cap AnalysisOutputs = {}

\* C9: no symbol occurs in more than one record of the risk table.
C9_OneRecordPerSymbol ==
    Done("risk") =>
       \A i, j \in DOMAIN returns_data :
          i # j => returns_data[i].Symbol # returns_data[j].Symbol

\* C10: the displayed Total P/L is the sum of profitLoss over the rows with
\* an available live price, and the portfolio return is that sum over the
\* invested value of the same rows.
AvailableRows == SelectSeq(df, Available)
C10_TotalsOverSameRows ==
    /\ Done("summary") => TotalPL = SumSkipNa(Column(AvailableRows, "PL"))
    /\ Done("benchmark") =>
          portfolio_return =
             FMul(FDiv(SumSkipNa(Column(AvailableRows, "PL")),
                       SumSkipNa(Column(AvailableRows, "InvestedValue"))),
                  Int2F(Percent))

====
